---- MODULE Spec2Model ----
(***************************************************************************)
(* Model of the M5Docs VS Code helper (src/src/extension.ts).              *)
(*                                                                         *)
(* Strings are sequences of one-character strings, so that split, join,    *)
(* lastIndexOf, slice, endsWith and extname are computed character by      *)
(* character as the code computes them.  Indices follow JavaScript         *)
(* (0-based); -1 is "not found".                                           *)
(***************************************************************************)
EXTENDS Integers, Sequences, FiniteSets, TLC

\* the null / undefined result of a lookup
Null == [null |-> TRUE]
\* no language chosen yet
NoLang == <<>>

(***************************************************************************)
(* Bounds of the model.                                                    *)
(***************************************************************************)
\* longest source path, in path segments after the leading separator
MaxSegs == 5
\* longest relative path given to buildUrl, in segments
MaxRelSegs == 2
\* most addresses the network interfaces have in all
MaxAddrs == 3
\* most workspace folders open
MaxFolders == 3
\* most documents on disk: the user creates no file beyond it
MaxDocs == 2

(***************************************************************************)
(* String primitives (JavaScript String / Array methods the code calls).   *)
(***************************************************************************)
\* s.slice(a, b) with 0 <= a, b
Slice(s, a, b) == SubSeq(s, a + 1, b)

\* s.startsWith(p)
StartsWith(s, p) == Len(s) >= Len(p) /\ SubSeq(s, 1, Len(p)) = p

\* s.endsWith(p)
EndsWith(s, p) == Len(s) >= Len(p) /\ SubSeq(s, Len(s) - Len(p) + 1, Len(s)) = p

\* s.lastIndexOf(needle) on strings
StrLastIndexOf(s, needle) ==
  LET hits == {i \in 0..(Len(s) - Len(needle)) : Slice(s, i, i + Len(needle)) = needle}
  IN  IF hits = {} THEN -1 ELSE CHOOSE i \in hits : \A j \in hits : j <= i

\* s.indexOf(needle) on strings
StrIndexOf(s, needle) ==
  LET hits == {i \in 0..(Len(s) - Len(needle)) : Slice(s, i, i + Len(needle)) = needle}
  IN  IF hits = {} THEN -1 ELSE CHOOSE i \in hits : \A j \in hits : i <= j

\* arr.lastIndexOf(x) on arrays
LastIndexOf(arr, x) ==
  LET hits == {i \in 0..(Len(arr) - 1) : arr[i + 1] = x}
  IN  IF hits = {} THEN -1 ELSE CHOOSE i \in hits : \A j \in hits : j <= i

\* arr.indexOf(x) on arrays
IndexOf(arr, x) ==
  LET hits == {i \in 0..(Len(arr) - 1) : arr[i + 1] = x}
  IN  IF hits = {} THEN -1 ELSE CHOOSE i \in hits : \A j \in hits : i <= j

\* arr.includes(x); an index past the end reads undefined, which is in no list
Includes(arr, x) == \E i \in 1..Len(arr) : arr[i] = x

\* s.split(c): the pieces between the occurrences of the character c
RECURSIVE Split(_, _)
Split(s, c) ==
  IF \A i \in 1..Len(s) : s[i] # c
  THEN <<s>>
  ELSE LET i == CHOOSE i \in 1..Len(s) : s[i] = c /\ \A j \in 1..(i - 1) : s[j] # c
       IN  <<SubSeq(s, 1, i - 1)>> \o Split(SubSeq(s, i + 1, Len(s)), c)

\* arr.join(c)
RECURSIVE Join(_, _)
Join(arr, c) ==
  IF Len(arr) = 0 THEN <<>>
  ELSE IF Len(arr) = 1 THEN arr[1]
  ELSE arr[1] \o <<c>> \o Join(Tail(arr), c)

\* arr.filter(Boolean) on an array of strings: drops the empty strings
RECURSIVE FilterNonEmpty(_)
FilterNonEmpty(arr) ==
  IF Len(arr) = 0 THEN <<>>
  ELSE (IF arr[1] = <<>> THEN <<>> ELSE <<arr[1]>>) \o FilterNonEmpty(Tail(arr))

\* s.replace(/\/+$/, ''): strips every trailing slash
RECURSIVE StripTrailingSlashes(_)
StripTrailingSlashes(s) ==
  IF Len(s) > 0 /\ s[Len(s)] = "/" THEN StripTrailingSlashes(SubSeq(s, 1, Len(s) - 1)) ELSE s

\* s.replace(/^\/+/, ''): strips every leading slash
RECURSIVE StripLeadingSlashes(_)
StripLeadingSlashes(s) ==
  IF Len(s) > 0 /\ s[1] = "/" THEN StripLeadingSlashes(Tail(s)) ELSE s

(***************************************************************************)
(* Literals of the code and of its default configuration.                  *)
(***************************************************************************)
STATIC == <<"s", "t", "a", "t", "i", "c">>
ZH_CN  == <<"z", "h", "_", "C", "N">>
EN     == <<"e", "n">>
JA     == <<"j", "a">>
README == <<"R", "E", "A", "D", "M", "E">>
DOT_MD == <<".", "m", "d">>

\* cfg.get('languages', ['zh_CN', 'en', 'ja'])
languages == <<ZH_CN, EN, JA>>
\* cfg.get('staticDirName', 'static')
staticDir == STATIC

Langs == {languages[i] : i \in 1..Len(languages)}

(***************************************************************************)
(* Path functions.                                                         *)
(***************************************************************************)
\* toPosix: every backslash becomes a slash
toPosix(p) == [i \in 1..Len(p) |-> IF p[i] = "\\" THEN "/" ELSE p[i]]

\* path.posix.extname: the extension of the last path component (trailing
\* slashes ignored): from its last dot to its end, empty when it has no dot,
\* when the dot is its first character, or when it is "..".
extname(p) ==
  LET ends  == {i \in 1..Len(p) : p[i] # "/"}
      e     == IF ends = {} THEN 0 ELSE CHOOSE i \in ends : \A j \in ends : j <= i
      sl    == {i \in 1..e : p[i] = "/"}
      start == IF sl = {} THEN 1 ELSE (CHOOSE i \in sl : \A j \in sl : j <= i) + 1
      dots  == {i \in start..e : p[i] = "."}
      d     == IF dots = {} THEN 0 ELSE CHOOSE i \in dots : \A j \in dots : j <= i
  IN  IF e = 0 \/ d = 0 \/ d = start THEN <<>>
      ELSE IF d = e /\ d = start + 1 /\ p[start] = "." THEN <<>>
      ELSE SubSeq(p, d, e)

\* the relPathNoExt computation of parseDocInfo (lines 63-67)
RelPathNoExt(relPathWithExt, readmeAsIndex) ==
  LET ext   == extname(relPathWithExt)
      noExt == Slice(relPathWithExt, 0, Len(relPathWithExt) - Len(ext))
  IN  IF readmeAsIndex /\ EndsWith(noExt, <<"/">> \o README)
      THEN Slice(noExt, 0, Len(noExt) - Len(README) - 1)
      ELSE noExt

\* the anchor of parseDocInfo: the index of the static segment (line 53)
StaticIdx(parts, sdir) == LastIndexOf(parts, sdir)

\* the emptiness test of parseDocInfo on the relative segments (line 60)
RelPartsEmpty(relParts) == Len(relParts) = 0

\* parseDocInfo(uri, languages, staticDir, treatReadmeAsIndex), uri.fsPath = fsPath
parseDocInfo(fsPath, langs, sdir, readmeAsIndex) ==
  LET fsPathPosix == toPosix(fsPath)
      parts       == Split(fsPathPosix, "/")
      staticIdx   == StaticIdx(parts, sdir)
  IN  IF staticIdx < 0 THEN Null
      ELSE IF staticIdx + 2 > Len(parts) \/ ~Includes(langs, parts[staticIdx + 2]) THEN Null
      ELSE LET relParts == SubSeq(parts, staticIdx + 3, Len(parts))
           IN  IF RelPartsEmpty(relParts) THEN Null
               ELSE [lang           |-> parts[staticIdx + 2],
                     relPathWithExt |-> Join(relParts, "/"),
                     relPathNoExt   |-> RelPathNoExt(Join(relParts, "/"), readmeAsIndex),
                     staticDir      |-> sdir]

\* vscode.Uri.file(p).fsPath on a POSIX host: a file path always starts with a slash
UriFile(p) == IF Len(p) > 0 /\ p[1] = "/" THEN p ELSE <<"/">> \o p

\* a builder that re-appends the relative path without its extension
TargetPosixNoExt(root, info, targetLang) ==
  root \o <<"/">> \o info.staticDir \o <<"/">> \o targetLang \o <<"/">> \o info.relPathNoExt

\* the path buildTargetFileUri assembles from the recovered root (line 87)
TargetPosix(root, info, targetLang) ==
  root \o <<"/">> \o info.staticDir \o <<"/">> \o targetLang \o <<"/">> \o info.relPathWithExt

\* buildTargetFileUri(sourceUri, targetLang, info): the target's fsPath, or the thrown error
buildTargetFileUri(fsPath, targetLang, info) ==
  LET fsPathPosix == toPosix(fsPath)
      needle      == <<"/">> \o info.staticDir \o <<"/">> \o info.lang \o <<"/">> \o info.relPathWithExt
      idx         == StrLastIndexOf(fsPathPosix, needle)
  IN  IF idx < 0 THEN [ok |-> FALSE, fsPath |-> <<>>]
      ELSE [ok |-> TRUE, fsPath |-> UriFile(TargetPosix(Slice(fsPathPosix, 0, idx), info, targetLang))]

(***************************************************************************)
(* URL functions.  new URL(s) is modelled for the http and https URLs and  *)
(* the scheme-less strings the model draws: scheme, host, port, path and   *)
(* the rest (query and fragment); the path is percent-encoded as the URL   *)
(* parser encodes it (of the characters drawn, the space), and the default *)
(* port of the scheme is dropped.                                          *)
(***************************************************************************)
HTTP  == <<"h", "t", "t", "p">>
HTTPS == <<"h", "t", "t", "p", "s">>

\* 1-based position of the first character of s that is in cs, Len(s) + 1 if none
FirstOf(s, cs) ==
  LET hits == {i \in 1..Len(s) : s[i] \in cs}
  IN  IF hits = {} THEN Len(s) + 1 ELSE CHOOSE i \in hits : \A j \in hits : i <= j

\* the path percent-encode set of the URL parser, applied to the characters drawn
RECURSIVE PercentEncodePath(_)
PercentEncodePath(s) ==
  IF Len(s) = 0 THEN <<>>
  ELSE (IF s[1] = " " THEN <<"%", "2", "0">> ELSE <<s[1]>>) \o PercentEncodePath(Tail(s))

DefaultPort(scheme) == IF scheme = HTTP THEN <<"8", "0">> ELSE <<"4", "4", "3">>

\* new URL(s): Null when it throws
NewURL(s) ==
  LET colon == FirstOf(s, {":"}) IN
  IF colon > Len(s) \/ SubSeq(s, 1, colon - 1) \notin {HTTP, HTTPS} THEN Null
  ELSE
    LET scheme  == SubSeq(s, 1, colon - 1)
        rest    == StripLeadingSlashes(SubSeq(s, colon + 1, Len(s)))
        authEnd == FirstOf(rest, {"/", "?", "#"})
        auth    == SubSeq(rest, 1, authEnd - 1)
        pcolon  == FirstOf(auth, {":"})
        port    == SubSeq(auth, pcolon + 1, Len(auth))
        tail    == SubSeq(rest, authEnd, Len(rest))
        pathEnd == FirstOf(tail, {"?", "#"})
        rawPath == SubSeq(tail, 1, pathEnd - 1)
    IN  IF pcolon = 1 \/ auth = <<>> THEN Null
        ELSE [protocol |-> scheme,
              hostname |-> SubSeq(auth, 1, pcolon - 1),
              port     |-> IF port = DefaultPort(scheme) THEN <<>> ELSE port,
              pathname |-> IF rawPath = <<>> THEN <<"/">> ELSE PercentEncodePath(rawPath),
              rest     |-> SubSeq(tail, pathEnd, Len(tail))]

\* u.toString()
Href(u) ==
  u.protocol \o <<":", "/", "/">> \o u.hostname
    \o (IF u.port = <<>> THEN <<>> ELSE <<":">> \o u.port) \o u.pathname \o u.rest

\* vscode.Uri.parse(s).toString(): the form handed to the browser, with the
\* path percent-encoded
UriToString(s) ==
  LET sep  == StrIndexOf(s, <<":", "/", "/">>)
      rest == SubSeq(s, sep + 4, Len(s))
      pa   == FirstOf(rest, {"/"})
  IN  IF sep < 0 THEN s
      ELSE SubSeq(s, 1, sep + 3) \o SubSeq(rest, 1, pa - 1)
             \o PercentEncodePath(SubSeq(rest, pa, Len(rest)))

\* buildUrl(base, lang, relPathNoExt): the text given to vscode.Uri.parse
buildUrl(base, lang, relPathNoExt) ==
  LET baseTrim == StripTrailingSlashes(base)
      pathPart == StripLeadingSlashes(relPathNoExt)
  IN  baseTrim \o <<"/">> \o lang \o <<"/">> \o pathPart

\* parseUrlToLangAndRel(urlStr, languages)
parseUrlToLangAndRel(urlStr, langs) ==
  LET u == NewURL(urlStr) IN
  IF u = Null THEN Null
  ELSE LET segs == FilterNonEmpty(Split(u.pathname, "/")) IN
       IF Len(segs) < 2 THEN Null
       ELSE IF ~Includes(langs, segs[1]) THEN Null
       ELSE [lang |-> segs[1], relNoExt |-> Join(Tail(segs), "/")]

(***************************************************************************)
(* LAN address resolver.                                                   *)
(***************************************************************************)
IP_LOOPBACK == <<"1", "2", "7", ".", "0", ".", "0", ".", "1">>
LOCALHOST   == <<"l", "o", "c", "a", "l", "h", "o", "s", "t">>
PREFIX_192_168 == <<"1", "9", "2", ".", "1", "6", "8", ".">>

\* the addresses of all interfaces in enumeration order (the two nested loops, lines 23-24)
RECURSIVE FlattenIfs(_)
FlattenIfs(nifs) == IF Len(nifs) = 0 THEN <<>> ELSE nifs[1] \o FlattenIfs(Tail(nifs))

\* the loop body of getLanIPv4Prefer192 (lines 25-32) over the remaining addresses
RECURSIVE ScanAddrs(_, _)
ScanAddrs(addrs, fallbacks) ==
  IF Len(addrs) = 0
  THEN (IF Len(fallbacks) = 0 THEN <<>> ELSE fallbacks[1])
  ELSE LET addr == addrs[1] IN
       IF addr.family = "IPv4" /\ ~addr.internal
       THEN IF StartsWith(addr.address, PREFIX_192_168)
            THEN addr.address
            ELSE ScanAddrs(Tail(addrs), Append(fallbacks, addr.address))
       ELSE ScanAddrs(Tail(addrs), fallbacks)

\* a resolver that takes the first non-internal IPv4 address, whatever its range
getLanIPv4First(nifs) ==
  LET ok == SelectSeq(FlattenIfs(nifs), LAMBDA a : a.family = "IPv4" /\ ~a.internal)
  IN  IF Len(ok) = 0 THEN <<>> ELSE ok[1].address

\* getLanIPv4Prefer192(): <<>> stands for null
getLanIPv4Prefer192(nifs) == ScanAddrs(FlattenIfs(nifs), <<>>)

\* patchBaseHost(base, lan)
patchBaseHost(base, lanIp) ==
  LET u == NewURL(base) IN
  IF u = Null THEN base
  ELSE LET patched == IF lanIp # <<>> /\ u.hostname \in {IP_LOOPBACK, LOCALHOST}
                      THEN [u EXCEPT !.hostname = lanIp]
                      ELSE u
       IN  StripTrailingSlashes(Href(patched))

(***************************************************************************)
(* State.                                                                  *)
(***************************************************************************)
VARIABLES
  \* ---- configuration, read once in activate (lines 169-176) ----
  treatReadmeAsIndex, \* cfg.get('treatReadmeAsIndex')
  previewBase,        \* cfg.get('previewBaseUrl')
  docsRootName,       \* cfg.get('docsRootName')
  \* ---- sibling navigation on one source file ----
  pstep,       \* position of the navigation
  source,      \* fsPath of the source uri
  info,        \* parseDocInfo(source), Null when unresolved
  targetLang,  \* language of the m5docs.openSibling.<lang> command invoked
  target,      \* result of buildTargetFileUri(source, targetLang, info)
  targetInfo,  \* parseDocInfo(target)
  backLang,    \* language of the sibling command invoked on the target
  backTarget,  \* result of buildTargetFileUri(target, backLang, targetInfo)
  \* ---- URL builder and parser ----
  ustep,       \* position of the URL round trip
  ubase,       \* base URL given to buildUrl
  ulang,       \* language given to buildUrl
  urel,        \* relPathNoExt given to buildUrl
  url,         \* the URL string built or typed
  parsed,      \* parseUrlToLangAndRel(url), Null when unparseable
  \* ---- LAN address resolver ----
  lstep,         \* position of the preview-base computation
  ifs,           \* os.networkInterfaces(): interfaces in enumeration order
  lan,           \* getLanIPv4Prefer192(), <<>> for null
  effectiveBase, \* patchBaseHost(previewBase, lan)
  \* ---- workspace picker ----
  wstep,       \* position inside pickDocsWorkspace
  folders,     \* vscode.workspace.workspaceFolders
  fs,          \* the paths that exist on disk
  probeIdx,    \* loop index of the heuristic (1-based)
  probes,      \* existence probes made by the current pick
  picked,      \* index of the folder returned, 0 for null
  \* ---- the command being run ----
  cmd,         \* the command in progress, "idle" between commands
  pc,          \* its position (the await it is suspended at)
  ctarget,     \* fsPath of the target uri given to openFileWithCreatePrompt
  log,         \* the calls the command has made to the editor, in order
  fsAtStart,   \* the paths that existed when the command started
  online,      \* the document and URL of the last m5docs.openOnline
  others,      \* m5docs.openAllLanguages: languages.filter(l => l !== info.lang)
  langIdx      \* position of its for...of loop in others (1-based, 0 before it)

cfgVars  == <<treatReadmeAsIndex, previewBase, docsRootName>>
pathVars == <<pstep, source, info, targetLang, target, targetInfo, backLang, backTarget>>
urlVars  == <<ustep, ubase, ulang, urel, url, parsed>>
lanVars  == <<lstep, ifs, lan, effectiveBase>>
wsVars   == <<wstep, folders, fs, probeIdx, probes, picked>>
cmdVars  == <<cmd, pc, ctarget, log, fsAtStart, online, others, langIdx>>
vars == <<cfgVars, pathVars, urlVars, lanVars, wsVars, cmdVars>>

NoTarget == [ok |-> FALSE, fsPath |-> <<>>]

\* the defaults of package.json / activate
DefaultPreviewBase ==
  <<"h", "t", "t", "p", ":", "/", "/", "1", "2", "7", ".", "0", ".", "0", ".", "1",
    ":", "3", "0", "0", "0">>
DefaultDocsRootName == "nuxt-m5-docs"

\* the parts of the state a specification does not exercise stay idle
UrlIdle ==
  ustep = "idle" /\ ubase = <<>> /\ ulang = NoLang /\ urel = <<>> /\ url = <<>> /\ parsed = Null
LanIdle ==
  lstep = "idle" /\ ifs = <<>> /\ lan = <<>> /\ effectiveBase = <<>>
WsIdle ==
  wstep = "idle" /\ folders = <<>> /\ fs = {} /\ probeIdx = 0 /\ probes = 0 /\ picked = 0
NoOnline == [src |-> <<>>, url |-> <<>>]
CmdIdle ==
  /\ cmd = "idle" /\ pc = "idle" /\ ctarget = <<>> /\ log = <<>> /\ fsAtStart = {}
  /\ online = NoOnline /\ others = <<>> /\ langIdx = 0
CfgDefault ==
  treatReadmeAsIndex = TRUE /\ previewBase = DefaultPreviewBase /\ docsRootName = DefaultDocsRootName

(***************************************************************************)
(* Source paths: up to MaxSegs segments, each after a separator.  The      *)
(* directories and the last segment are drawn from the names that matter   *)
(* to the resolver; an empty last segment is a trailing separator.  The    *)
(* separator is a slash or (as on Windows) a backslash, which toPosix      *)
(* rewrites.                                                               *)
(***************************************************************************)
GUIDE == <<"g", "u", "i", "d", "e">>
DirVocab  == {STATIC, EN, JA, GUIDE, <<>>}
LastVocab == {STATIC, EN, JA, README \o DOT_MD, <<"a">> \o DOT_MD, <<>>}
Separators == {"/", "\\"}

RECURSIVE PathOf(_, _)
PathOf(sep, segs) ==
  IF Len(segs) = 0 THEN <<>> ELSE <<sep>> \o segs[1] \o PathOf(sep, Tail(segs))

SourcePaths ==
  {PathOf(sep, dirs \o <<last>>) :
     sep \in Separators, last \in LastVocab,
     dirs \in UNION {[1..n -> DirVocab] : n \in 0..(MaxSegs - 1)}}

PathIdle ==
  /\ pstep = "idle" /\ source = <<>> /\ info = Null /\ targetLang = NoLang
  /\ target = NoTarget /\ targetInfo = Null /\ backLang = NoLang /\ backTarget = NoTarget

InitPath ==
  /\ treatReadmeAsIndex \in BOOLEAN
  /\ previewBase = DefaultPreviewBase /\ docsRootName = DefaultDocsRootName
  /\ UrlIdle /\ LanIdle /\ WsIdle /\ CmdIdle
  /\ source \in SourcePaths
  /\ pstep = "start" /\ info = Null /\ targetLang = NoLang
  /\ target = NoTarget /\ targetInfo = Null /\ backLang = NoLang /\ backTarget = NoTarget

\* lines 185-189: resolve the source; unresolved shows the not-in-tree message
Resolve ==
  /\ pstep = "start"
  /\ info' = parseDocInfo(source, languages, staticDir, treatReadmeAsIndex)
  /\ pstep' = IF info' = Null THEN "notInTree" ELSE "resolved"
  /\ UNCHANGED <<cfgVars, cmdVars, urlVars, lanVars, wsVars, source, targetLang, target, targetInfo, backLang, backTarget>>

\* lines 190-195: build the sibling for the command's language
Sibling(lang) ==
  /\ pstep = "resolved"
  /\ targetLang' = lang
  /\ target' = buildTargetFileUri(source, lang, info)
  /\ pstep' = IF target'.ok THEN "built" ELSE "rootError"
  /\ UNCHANGED <<cfgVars, cmdVars, urlVars, lanVars, wsVars, source, info, targetInfo, backLang, backTarget>>

\* the sibling command invoked on the target: resolve it
ResolveTarget ==
  /\ pstep = "built"
  /\ targetInfo' = parseDocInfo(target.fsPath, languages, staticDir, treatReadmeAsIndex)
  /\ pstep' = IF targetInfo' = Null THEN "targetNotInTree" ELSE "targetResolved"
  /\ UNCHANGED <<cfgVars, cmdVars, urlVars, lanVars, wsVars, source, info, targetLang, target, backLang, backTarget>>

\* ... and build its sibling
Back(lang) ==
  /\ pstep = "targetResolved"
  /\ backLang' = lang
  /\ backTarget' = buildTargetFileUri(target.fsPath, lang, targetInfo)
  /\ pstep' = IF backTarget'.ok THEN "back" ELSE "backRootError"
  /\ UNCHANGED <<cfgVars, cmdVars, urlVars, lanVars, wsVars, source, info, targetLang, target, targetInfo>>

NextPath ==
  \/ Resolve
  \/ \E lang \in Langs : Sibling(lang)
  \/ ResolveTarget
  \/ \E lang \in Langs : Back(lang)

SpecPath == InitPath /\ [][NextPath]_vars

(***************************************************************************)
(* Properties of the resolver and the sibling builder.                     *)
(***************************************************************************)
SourceParts == Split(toPosix(source), "/")

\* the decompositions of the source as <root>/<staticDir>/<lang>/<P>, P a
\* relative path that names a file: the 0-based indices of a static segment
\* followed by lang and at least one more segment, the last one not empty
FormsOf(parts, lang) ==
  {k \in 1..(Len(parts) - 3) :
     parts[k + 1] = staticDir /\ parts[k + 2] = lang /\ parts[Len(parts)] # <<>>}

RelAfter(parts, k) == Join(SubSeq(parts, k + 3, Len(parts)), "/")

\* C1: for every decomposition of the source as <root>/<staticDir>/<L1>/<P>,
\* the sibling T for L2 resolves, and the sibling of T for L1 is the source in
\* forward-slash form, with relPathWithExt of both equal to P.
C1_SiblingRoundTrip ==
  /\ pstep \notin {"rootError", "targetNotInTree", "backRootError"}
  /\ pstep = "back" =>
       \A k \in FormsOf(SourceParts, backLang) :
         /\ backTarget.fsPath = toPosix(source)
         /\ info.relPathWithExt = RelAfter(SourceParts, k)
         /\ targetInfo.relPathWithExt = RelAfter(SourceParts, k)

\* the segments of the sibling C2 describes: those of the source with the
\* segment after the last static segment replaced by the target language
Anchor(parts) == CHOOSE k \in 0..(Len(parts) - 1) :
  parts[k + 1] = staticDir /\ \A j \in (k + 1)..(Len(parts) - 1) : parts[j + 1] # staticDir

\* C2: the sibling path is the forward-slash form of the source with only the
\* segment after the anchoring static segment changed from d.lang to the
\* target language; for the source's own language it is the source itself.
C2_OnlyLangSegmentDiffers ==
  pstep \in {"resolved", "rootError", "built"} =>
    LET k == Anchor(SourceParts) IN
    /\ pstep # "rootError"
    /\ SourceParts[k + 2] = info.lang
    /\ Join(SubSeq(SourceParts, k + 3, Len(SourceParts)), "/") = info.relPathWithExt
    /\ pstep = "built" =>
         /\ target.fsPath = Join([SourceParts EXCEPT ![k + 2] = targetLang], "/")
         /\ targetLang = info.lang => target.fsPath = toPosix(source)

C2_Witness ==
  /\ pstep = "built" /\ targetLang # info.lang
  /\ Len(extname(info.relPathWithExt)) > 0
  /\ \E c \in 1..Len(source) : source[c] = "\\"

\* the path sits under <staticDir>/<lang>/ for a configured language: a static
\* segment, then a configured language, then at least one further segment
InTree(parts) ==
  \E k \in 0..(Len(parts) - 3) : parts[k + 1] = staticDir /\ parts[k + 2] \in Langs

\* C3: the resolver reports not-in-tree exactly for the paths that do not sit
\* under <staticDir>/<lang>/ for any configured language.
C3_NotInTreeIffOutside ==
  pstep # "start" => ((info = Null) <=> ~InTree(SourceParts))

\* C4: a resolved DocInfo never has an empty relPathWithExt.
C4_RelPathNeverEmpty ==
  info # Null => info.relPathWithExt # <<>>

\* the file name of the resolved document and what C5 says about it
RelParts == Split(info.relPathWithExt, "/")
FileName == RelParts[Len(RelParts)]
FileStem == Slice(FileName, 0, Len(FileName) - Len(extname(FileName)))
DirParts == SubSeq(RelParts, 1, Len(RelParts) - 1)

\* C5: for a file whose name without extension is README, relPathNoExt is the
\* containing directory when treatReadmeAsIndex is on and ends in README when it
\* is off; for any other file it is the relative path without the extension.
C5_ReadmeNormalization ==
  (info # Null /\ FileName # <<>>) =>
    info.relPathNoExt =
      IF FileStem = README /\ treatReadmeAsIndex
      THEN Join(DirParts, "/")
      ELSE Join(DirParts \o <<FileStem>>, "/")

(***************************************************************************)
(* URL builder and parser: build the URL of a document, or take a typed    *)
(* one, and parse it back (lines 127-131, 153-166, 214, 241).              *)
(***************************************************************************)
\* cfg.get('onlineBaseUrl', 'https://docs.m5stack.com')
OnlineBase ==
  HTTPS \o <<":", "/", "/", "d", "o", "c", "s", ".", "m", "5", "s", "t", "a", "c", "k",
             ".", "c", "o", "m">>

\* bases of scheme and host with zero, one and two trailing slashes
BaseUrls == {OnlineBase, OnlineBase \o <<"/">>, OnlineBase \o <<"/", "/">>}

\* names of directories and documents, one of them with a space
MY_DOC == <<"m", "y", " ", "d", "o", "c">>
RelVocab == {GUIDE, <<"a">>, MY_DOC}
RelPaths == {Join(segs, "/") : segs \in UNION {[1..n -> RelVocab] : n \in 1..MaxRelSegs}}

\* URLs a user may type that are not the URL of a document
TypedUrls ==
  { <<"x">>,
    OnlineBase,
    OnlineBase \o <<"/">> \o ZH_CN,
    OnlineBase \o <<"/">> \o ZH_CN \o <<"/">>,
    OnlineBase \o <<"/", "f", "r", "/", "a">>,
    OnlineBase \o <<"/">> \o EN \o <<"/", "a", "?", "q">> }

InitUrl ==
  /\ CfgDefault /\ PathIdle /\ LanIdle /\ WsIdle /\ CmdIdle
  /\ ubase \in BaseUrls /\ ulang \in Langs /\ urel \in RelPaths
  /\ ustep = "start" /\ url = <<>> /\ parsed = Null

\* lines 214-215: the URL of the document, as handed to the browser
Build ==
  /\ ustep = "start"
  /\ url' = UriToString(buildUrl(ubase, ulang, urel))
  /\ ustep' = "built"
  /\ UNCHANGED <<cfgVars, cmdVars, pathVars, lanVars, wsVars, ubase, ulang, urel, parsed>>

\* lines 235-239: a URL typed into the input box
Type(u) ==
  /\ ustep = "start"
  /\ url' = u
  /\ ustep' = "typed"
  /\ UNCHANGED <<cfgVars, cmdVars, pathVars, lanVars, wsVars, ubase, ulang, urel, parsed>>

\* line 241
Parse ==
  /\ ustep \in {"built", "typed"}
  /\ parsed' = parseUrlToLangAndRel(url, languages)
  /\ ustep' = IF ustep = "built" THEN "parsedBuilt" ELSE "parsedTyped"
  /\ UNCHANGED <<cfgVars, cmdVars, pathVars, lanVars, wsVars, ubase, ulang, urel, url>>

NextUrl ==
  \/ Build
  \/ \E u \in TypedUrls : Type(u)
  \/ Parse

SpecUrl == InitUrl /\ [][NextUrl]_vars

\* the non-empty segments of the path of a URL string (between the host and
\* the query), read off the string
UrlPathSegs(u) ==
  LET afterScheme == SubSeq(u, StrIndexOf(u, <<":", "/", "/">>) + 4, Len(u))
      fromPath    == SubSeq(afterScheme, FirstOf(afterScheme, {"/"}), Len(afterScheme))
  IN  FilterNonEmpty(Split(SubSeq(fromPath, 1, FirstOf(fromPath, {"?", "#"}) - 1), "/"))

\* C6: the URL built from (base, L, R) is <base without trailing slashes>/L/R
\* and parses back to {lang: L, relNoExt: R}; a URL with fewer than two path
\* segments or an unconfigured first segment is unparseable.
C6_UrlRoundTrip ==
  /\ ustep = "parsedBuilt" =>
       /\ buildUrl(ubase, ulang, urel) = StripTrailingSlashes(ubase) \o <<"/">> \o ulang \o <<"/">> \o urel
       /\ parsed = [lang |-> ulang, relNoExt |-> urel]
  /\ ( /\ ustep = "parsedTyped"
       /\ StrIndexOf(url, <<":", "/", "/">>) >= 0
       /\ (Len(UrlPathSegs(url)) < 2 \/ UrlPathSegs(url)[1] \notin Langs) )
     => parsed = Null

(***************************************************************************)
(* LAN substitution of the preview base (lines 227-228).                   *)
(***************************************************************************)
AddrVocab ==
  { [family |-> "IPv4", internal |-> TRUE,  address |-> IP_LOOPBACK],
    [family |-> "IPv4", internal |-> FALSE, address |-> <<"1", "0", ".", "0", ".", "0", ".", "5">>],
    [family |-> "IPv4", internal |-> FALSE, address |-> PREFIX_192_168 \o <<"1", ".", "2", "3">>],
    [family |-> "IPv4", internal |-> FALSE, address |-> <<"1", "7", "2", ".", "1", "6", ".", "0", ".", "9">>],
    [family |-> "IPv6", internal |-> FALSE, address |-> <<"f", "e", "8", "0", ":", ":", "1">>] }

\* two interfaces that share up to MaxAddrs addresses between them
Interfaces ==
  UNION {{<<SubSeq(as, 1, c), SubSeq(as, c + 1, n)>> : as \in [1..n -> AddrVocab], c \in 0..n} :
           n \in 0..MaxAddrs}

PORT_3000 == <<":", "3", "0", "0", "0">>
PreviewBases ==
  { DefaultPreviewBase,
    HTTP \o <<":", "/", "/">> \o LOCALHOST \o PORT_3000 \o <<"/">>,
    HTTPS \o <<":", "/", "/">> \o LOCALHOST,
    HTTP \o <<":", "/", "/">> \o LOCALHOST \o <<":", "8", "0">>,
    HTTP \o <<":", "/", "/", "m", "5", ".", "l", "a", "n">> \o PORT_3000,
    <<"x">> }

InitLan ==
  /\ treatReadmeAsIndex = TRUE /\ docsRootName = DefaultDocsRootName
  /\ previewBase \in PreviewBases
  /\ PathIdle /\ UrlIdle /\ WsIdle /\ CmdIdle
  /\ ifs \in Interfaces
  /\ lstep = "start" /\ lan = <<>> /\ effectiveBase = <<>>

\* line 227
GetLan ==
  /\ lstep = "start"
  /\ lan' = getLanIPv4Prefer192(ifs)
  /\ lstep' = "lan"
  /\ UNCHANGED <<cfgVars, cmdVars, pathVars, urlVars, wsVars, ifs, effectiveBase>>

\* line 228
PatchBase ==
  /\ lstep = "lan"
  /\ effectiveBase' = patchBaseHost(previewBase, lan)
  /\ lstep' = "patched"
  /\ UNCHANGED <<cfgVars, cmdVars, pathVars, urlVars, wsVars, ifs, lan>>

NextLan == GetLan \/ PatchBase

SpecLan == InitLan /\ [][NextLan]_vars

\* the non-internal IPv4 addresses in enumeration order, and those in 192.168.*
ExternalV4 == SelectSeq(FlattenIfs(ifs), LAMBDA a : a.family = "IPv4" /\ ~a.internal)
In192_168  == SelectSeq(ExternalV4, LAMBDA a : StartsWith(a.address, PREFIX_192_168))

ProbePath(f) == f.uri \o <<"/">> \o staticDir \o <<"/">> \o languages[1]

\* exists(uri): stat succeeds
exists(path) == path \in fs

\* a picker whose structural heuristic overrides the preferred name
PreferredIdxUnlessDocs(fds, preferredName) ==
  IF \E i \in 1..Len(fds) : exists(ProbePath(fds[i])) THEN 0
  ELSE IndexOf([i \in 1..Len(fds) |-> fds[i].name], preferredName) + 1

\* lines 139-142: the 1-based index of the first folder named preferredName, 0
\* when the name is empty or undefined or no folder has it
PreferredIdx(fds, preferredName) ==
  IF preferredName = "" THEN 0
  ELSE IndexOf([i \in 1..Len(fds) |-> fds[i].name], preferredName) + 1

\* lines 135-142
PickStart ==
  /\ wstep = "pick"
  /\ IF Len(folders) = 0
     THEN picked' = 0 /\ wstep' = "done" /\ UNCHANGED probeIdx
     ELSE IF PreferredIdx(folders, docsRootName) > 0
     THEN picked' = PreferredIdx(folders, docsRootName) /\ wstep' = "done" /\ UNCHANGED probeIdx
     ELSE probeIdx' = 1 /\ wstep' = "probe" /\ UNCHANGED picked
  /\ UNCHANGED <<cfgVars, cmdVars, pathVars, urlVars, lanVars, folders, fs, probes>>

\* lines 144-147: one iteration of the heuristic loop
ProbeFolder ==
  /\ wstep = "probe" /\ probeIdx <= Len(folders)
  /\ probes' = probes + 1
  /\ IF exists(ProbePath(folders[probeIdx]))
     THEN picked' = probeIdx /\ wstep' = "done" /\ UNCHANGED probeIdx
     ELSE probeIdx' = probeIdx + 1 /\ UNCHANGED <<picked, wstep>>
  /\ UNCHANGED <<cfgVars, cmdVars, pathVars, urlVars, lanVars, folders, fs>>

\* line 149
PickFallback ==
  /\ wstep = "probe" /\ probeIdx > Len(folders)
  /\ picked' = 1 /\ wstep' = "done"
  /\ UNCHANGED <<cfgVars, cmdVars, pathVars, urlVars, lanVars, folders, fs, probeIdx, probes>>

FolderVocab ==
  { [name |-> DefaultDocsRootName, uri |-> <<"/", "w", "/", "n">>],
    [name |-> DefaultDocsRootName, uri |-> <<"/", "x", "/", "n">>],
    [name |-> "docs",              uri |-> <<"/", "w", "/", "d">>],
    [name |-> "site",              uri |-> <<"/", "w", "/", "s">>] }

InitWs ==
  /\ treatReadmeAsIndex = TRUE /\ previewBase = DefaultPreviewBase
  /\ docsRootName \in {DefaultDocsRootName, "docs", ""}
  /\ PathIdle /\ UrlIdle /\ LanIdle /\ CmdIdle
  /\ folders \in UNION {[1..n -> FolderVocab] : n \in 0..MaxFolders}
  /\ fs \in SUBSET {ProbePath(f) : f \in FolderVocab}
  /\ wstep = "pick" /\ probeIdx = 0 /\ probes = 0 /\ picked = 0

NextWs == PickStart \/ ProbeFolder \/ PickFallback

SpecWs == InitWs /\ [][NextWs]_vars

Least(S) == CHOOSE i \in S : \A j \in S : i <= j
NamedFolders == {i \in 1..Len(folders) : folders[i].name = docsRootName}
DocsFolders  == {i \in 1..Len(folders) : ProbePath(folders[i]) \in fs}

\* C9: none exactly when no folder is open; else the folder named as preferred
\* (found without any existence probe), else the first folder that holds
\* <staticDir>/<first language>, else the first folder.
C9_WorkspaceSelection ==
  wstep = "done" =>
    /\ (picked = 0) <=> (Len(folders) = 0)
    /\ Len(folders) > 0 =>
         IF NamedFolders # {} THEN picked = Least(NamedFolders) /\ probes = 0
         ELSE IF DocsFolders # {} THEN picked = Least(DocsFolders)
         ELSE picked = 1

\* the preferred folder is picked although an earlier folder holds the docs tree
C9_Witness ==
  /\ wstep = "done" /\ picked = 2 /\ picked \in NamedFolders
  /\ 1 \in DocsFolders /\ 2 \notin DocsFolders

(***************************************************************************)
(* The commands (lines 168-258) and the File Materializer (lines 92-124).  *)
(* A command runs from its invocation to its return; every await of the    *)
(* materializer is one action, and the editor or the file system may make  *)
(* any of its calls fail.                                                  *)
(***************************************************************************)
Event(op, path, arg) == [op |-> op, path |-> path, arg |-> arg]

\* the buttons of the creation dialog: '创建', '取消', and undefined when the
\* dialog is dismissed
Choices == {"create", "cancel", "dismiss"}

\* path.dirname of an absolute path
Dirname(p) ==
  LET q  == IF Len(p) > 1 THEN StripTrailingSlashes(p) ELSE p
      sl == {i \in 1..Len(q) : q[i] = "/"}
      i  == IF sl = {} THEN 0 ELSE CHOOSE i \in sl : \A j \in sl : j <= i
  IN  IF i = 0 THEN <<".">> ELSE IF i = 1 THEN <<"/">> ELSE SubSeq(q, 1, i - 1)

\* path.basename(p, path.extname(p)) (line 97)
BaseName(p) ==
  LET parts == Split(StripTrailingSlashes(p), "/")
      name  == parts[Len(parts)]
      ext   == extname(p)
  IN  IF ext # <<>> /\ ext # name /\ EndsWith(name, ext)
      THEN Slice(name, 0, Len(name) - Len(ext)) ELSE name

\* a dialog handler that creates unless the user pressed cancel
AfterPickUnlessCancel(choice) == IF choice = "cancel" THEN "return" ELSE "mkdir"

\* line 119: only the create button goes on to ensureCreateFile
AfterPick(choice) == IF choice # "create" THEN "return" ELSE "mkdir"

\* the files a command may be invoked on: what exists, a file outside the
\* tree, or no file at all (no uri and no active editor)
NoSource == <<>>
OutsideFile == <<"/", "w", "/", "n", "/", "a">> \o DOT_MD
Sources == {f \in fs : EndsWith(f, DOT_MD)} \cup {OutsideFile, NoSource}

StartCommand(name) ==
  /\ cmd = "idle"
  /\ cmd' = name
  /\ fsAtStart' = fs

\* m5docs.openSibling.<lang> up to its first await (lines 179-192)
OpenSibling(src, lang) ==
  /\ StartCommand("openSibling")
  /\ LET d == parseDocInfo(src, languages, staticDir, treatReadmeAsIndex)
         t == buildTargetFileUri(src, lang, d)
     IN  IF src = NoSource
         THEN log' = <<Event("showErrorMessage", <<>>, "noSource")>> /\ pc' = "return" /\ ctarget' = <<>>
         ELSE IF d = Null
         THEN log' = <<Event("showErrorMessage", <<>>, "notInTree")>> /\ pc' = "return" /\ ctarget' = <<>>
         ELSE IF ~t.ok
         THEN log' = <<Event("showErrorMessage", <<>>, "rootUnlocatable")>> /\ pc' = "return" /\ ctarget' = <<>>
         ELSE log' = <<>> /\ pc' = "exists" /\ ctarget' = t.fsPath
  /\ UNCHANGED <<others, langIdx, cfgVars, pathVars, urlVars, lanVars, wsVars, online>>

\* m5docs.openOnline (lines 206-216)
OpenOnline(src) ==
  /\ StartCommand("openOnline")
  /\ LET d == parseDocInfo(src, languages, staticDir, treatReadmeAsIndex) IN
     IF src = NoSource
     THEN log' = <<>> /\ UNCHANGED online
     ELSE IF d = Null
     THEN log' = <<Event("showErrorMessage", <<>>, "notInTree")>> /\ UNCHANGED online
     ELSE LET u == UriToString(buildUrl(OnlineBase, d.lang, d.relPathNoExt)) IN
          /\ log' = <<Event("openExternal", u, "")>>
          /\ online' = [src |-> src, url |-> u]
  /\ pc' = "return" /\ ctarget' = <<>>
  /\ UNCHANGED <<others, langIdx, cfgVars, pathVars, urlVars, lanVars, wsVars>>

\* m5docs.openPreview (lines 219-231)
OpenPreview(src) ==
  /\ StartCommand("openPreview")
  /\ LET d == parseDocInfo(src, languages, staticDir, treatReadmeAsIndex) IN
     IF src = NoSource
     THEN log' = <<>> /\ UNCHANGED <<lan, effectiveBase>>
     ELSE IF d = Null
     THEN log' = <<Event("showErrorMessage", <<>>, "notInTree")>> /\ UNCHANGED <<lan, effectiveBase>>
     ELSE /\ lan' = getLanIPv4Prefer192(ifs)
          /\ effectiveBase' = patchBaseHost(previewBase, lan')
          /\ log' = <<Event("openExternal",
                            UriToString(buildUrl(effectiveBase', d.lang, d.relPathNoExt)), "")>>
  /\ pc' = "return" /\ ctarget' = <<>>
  /\ UNCHANGED <<others, langIdx, cfgVars, pathVars, urlVars, wsVars, lstep, ifs, online>>

\* m5docs.openFromUrl: the input box opens (line 235)
OpenFromUrl ==
  /\ StartCommand("openFromUrl")
  /\ log' = <<>> /\ pc' = "input" /\ ctarget' = <<>>
  /\ UNCHANGED <<others, langIdx, cfgVars, pathVars, urlVars, lanVars, wsVars, online>>

\* lines 239-247: the user answers the input box (<<>>: cancelled or empty)
InputUrl(u) ==
  /\ cmd = "openFromUrl" /\ pc = "input"
  /\ url' = u
  /\ parsed' = IF u = <<>> THEN Null ELSE parseUrlToLangAndRel(u, languages)
  /\ IF u = <<>>
     THEN pc' = "return" /\ UNCHANGED <<log, wstep, probeIdx, probes, picked>>
     ELSE IF parsed' = Null
     THEN /\ log' = Append(log, Event("showErrorMessage", <<>>, "unparseableUrl"))
          /\ pc' = "return" /\ UNCHANGED <<wstep, probeIdx, probes, picked>>
     ELSE /\ pc' = "pick" /\ wstep' = "pick" /\ probeIdx' = 0 /\ probes' = 0 /\ picked' = 0
          /\ UNCHANGED log
  /\ UNCHANGED <<others, langIdx, cfgVars, pathVars, lanVars, ustep, ubase, ulang, urel, folders, fs,
                 cmd, ctarget, fsAtStart, online>>

\* lines 248-257: the workspace is picked; construct <ws>/static/<lang>/<rel>.md
FromUrlTarget ==
  /\ cmd = "openFromUrl" /\ pc = "pick" /\ wstep = "done"
  /\ wstep' = "idle"
  /\ IF picked = 0
     THEN /\ log' = Append(log, Event("showErrorMessage", <<>>, "noWorkspace"))
          /\ pc' = "return" /\ UNCHANGED ctarget
     ELSE LET relWithExt == StripTrailingSlashes(parsed.relNoExt) \o DOT_MD IN
          /\ ctarget' = folders[picked].uri \o <<"/">> \o staticDir \o <<"/">> \o parsed.lang
                          \o <<"/">> \o relWithExt
          /\ pc' = "exists" /\ UNCHANGED log
  /\ UNCHANGED <<others, langIdx, cfgVars, pathVars, urlVars, lanVars, folders, fs, probeIdx, probes, picked,
                 cmd, fsAtStart, online>>

\* openFileWithCreatePrompt, line 113: await exists(target)
MatExists ==
  /\ pc = "exists"
  /\ log' = Append(log, Event("stat", ctarget, IF exists(ctarget) THEN "found" ELSE "missing"))
  /\ pc' = IF exists(ctarget) THEN "open" ELSE "prompt"
  /\ UNCHANGED <<others, langIdx, cfgVars, pathVars, urlVars, lanVars, wsVars, cmd, ctarget, fsAtStart, online>>

\* lines 114-119: the modal dialog is answered or dismissed
MatPrompt(choice) ==
  /\ pc = "prompt"
  /\ choice = "create" => Cardinality({f \in fs : EndsWith(f, DOT_MD)}) < MaxDocs
  /\ log' = Append(log, Event("showInformationMessage", ctarget, choice))
  /\ pc' = AfterPick(choice)
  /\ UNCHANGED <<others, langIdx, cfgVars, pathVars, urlVars, lanVars, wsVars, cmd, ctarget, fsAtStart, online>>

\* the directory and its missing parents (createDirectory is mkdir -p)
WithParents(dir) ==
  {SubSeq(dir, 1, i) : i \in {j \in 1..Len(dir) : j > 1 /\ (j = Len(dir) \/ dir[j + 1] = "/")}}

\* ensureCreateFile, lines 93-94
MatCreateDirectory ==
  /\ pc = "mkdir"
  /\ fs' = fs \cup WithParents(Dirname(ctarget))
  /\ log' = Append(log, Event("createDirectory", Dirname(ctarget), ""))
  /\ pc' = "write"
  /\ UNCHANGED <<others, langIdx, cfgVars, pathVars, urlVars, lanVars, wstep, folders, probeIdx, probes, picked,
                 cmd, ctarget, fsAtStart, online>>

\* ensureCreateFile, lines 97-99: the template with ${BASENAME} replaced
MatWriteFile ==
  /\ pc = "write"
  /\ fs' = fs \cup {ctarget}
  /\ log' = Append(log, Event("writeFile", ctarget, BaseName(ctarget)))
  /\ pc' = "open"
  /\ UNCHANGED <<others, langIdx, cfgVars, pathVars, urlVars, lanVars, wstep, folders, probeIdx, probes, picked,
                 cmd, ctarget, fsAtStart, online>>

\* line 122
MatOpenTextDocument ==
  /\ pc = "open"
  /\ log' = Append(log, Event("openTextDocument", ctarget, ""))
  /\ pc' = "show"
  /\ UNCHANGED <<others, langIdx, cfgVars, pathVars, urlVars, lanVars, wsVars, cmd, ctarget, fsAtStart, online>>

\* line 123
MatShowTextDocument ==
  /\ pc = "show"
  /\ log' = Append(log, Event("showTextDocument", ctarget, "preview:false"))
  /\ pc' = "return"
  /\ UNCHANGED <<others, langIdx, cfgVars, pathVars, urlVars, lanVars, wsVars, cmd, ctarget, fsAtStart, online>>

\* an awaited call of the materializer rejects (file-system or editor error)
MatThrow ==
  /\ pc \in {"mkdir", "write", "open", "show"}
  /\ log' = Append(log, Event("throw", ctarget, pc))
  /\ pc' = "threw"
  /\ UNCHANGED <<others, langIdx, cfgVars, pathVars, urlVars, lanVars, wsVars, cmd, ctarget, fsAtStart, online>>

\* lines 193-195 and 294-296: openSibling and openAllLanguages report the
\* error; openFromUrl has no handler and the command rejects
Catch ==
  /\ pc = "threw"
  /\ log' = IF cmd \in {"openSibling", "openAllLanguages"}
            THEN Append(log, Event("showErrorMessage", <<>>, "thrown"))
            ELSE log
  /\ pc' = "return"
  /\ UNCHANGED <<others, langIdx, cfgVars, pathVars, urlVars, lanVars, wsVars, cmd, ctarget, fsAtStart, online>>

(***************************************************************************)
(* m5docs.openAllLanguages (lines 263-297): one loop over the languages    *)
(* other than the source's, with the existence check, the dialog, the      *)
(* creation, the open and the show of each awaited in turn.                *)
(***************************************************************************)
\* the buttons of the loop's dialog: '创建', '跳过', and undefined when the
\* dialog is dismissed
AllChoices == {"create", "skip", "dismiss"}

\* line 275
Others(langs, d) == SelectSeq(langs, LAMBDA l : l # d.lang)

\* a loop that returns from the command when a dialog is declined
AllAfterPickReturn(choice) == IF choice # "create" THEN "return" ELSE "allMkdir"

\* line 284: anything but the create button continues with the next language
AllAfterPick(choice) == IF choice # "create" THEN "loop" ELSE "allMkdir"

\* lines 263-275: up to the loop
OpenAllLanguages(src) ==
  /\ StartCommand("openAllLanguages")
  /\ LET d == parseDocInfo(src, languages, staticDir, treatReadmeAsIndex) IN
     IF src = NoSource
     THEN /\ log' = <<Event("showErrorMessage", <<>>, "noSource")>> /\ pc' = "return"
          /\ UNCHANGED <<source, info, others>>
     ELSE IF d = Null
     THEN /\ log' = <<Event("showErrorMessage", <<>>, "notInTree")>> /\ pc' = "return"
          /\ UNCHANGED <<source, info, others>>
     ELSE /\ log' = <<>> /\ pc' = "loop"
          /\ source' = src /\ info' = d /\ others' = Others(languages, d)
  /\ langIdx' = 0 /\ ctarget' = <<>>
  /\ UNCHANGED <<cfgVars, pstep, targetLang, target, targetInfo, backLang, backTarget,
                 urlVars, lanVars, wsVars, online>>

\* lines 277-278: the loop takes its next language and builds the target, or
\* ends after the last one
AllBuildTarget ==
  /\ cmd = "openAllLanguages" /\ pc = "loop"
  /\ IF langIdx = Len(others)
     THEN pc' = "return" /\ UNCHANGED <<langIdx, ctarget, log>>
     ELSE LET t == buildTargetFileUri(source, others[langIdx + 1], info) IN
          /\ langIdx' = langIdx + 1
          /\ IF t.ok
             THEN ctarget' = t.fsPath /\ pc' = "allExists" /\ UNCHANGED log
             ELSE /\ log' = Append(log, Event("throw", <<>>, "rootUnlocatable"))
                  /\ pc' = "threw" /\ UNCHANGED ctarget
  /\ UNCHANGED <<others, cfgVars, pathVars, urlVars, lanVars, wsVars, cmd, fsAtStart, online>>

\* line 279: await exists(target)
AllExists ==
  /\ pc = "allExists"
  /\ log' = Append(log, Event("stat", ctarget, IF exists(ctarget) THEN "found" ELSE "missing"))
  /\ pc' = IF exists(ctarget) THEN "allOpen" ELSE "allPrompt"
  /\ UNCHANGED <<others, langIdx, cfgVars, pathVars, urlVars, lanVars, wsVars, cmd, ctarget,
                 fsAtStart, online>>

\* lines 280-284: the modal dialog is answered or dismissed
AllPrompt(choice) ==
  /\ pc = "allPrompt"
  /\ choice = "create" => Cardinality({f \in fs : EndsWith(f, DOT_MD)}) < MaxDocs
  /\ log' = Append(log, Event("showInformationMessage", ctarget, choice))
  /\ pc' = AllAfterPick(choice)
  /\ UNCHANGED <<others, langIdx, cfgVars, pathVars, urlVars, lanVars, wsVars, cmd, ctarget,
                 fsAtStart, online>>

\* line 285, ensureCreateFile lines 93-94
AllCreateDirectory ==
  /\ pc = "allMkdir"
  /\ fs' = fs \cup WithParents(Dirname(ctarget))
  /\ log' = Append(log, Event("createDirectory", Dirname(ctarget), ""))
  /\ pc' = "allWrite"
  /\ UNCHANGED <<others, langIdx, cfgVars, pathVars, urlVars, lanVars, wstep, folders, probeIdx,
                 probes, picked, cmd, ctarget, fsAtStart, online>>

\* line 285, ensureCreateFile lines 97-99
AllWriteFile ==
  /\ pc = "allWrite"
  /\ fs' = fs \cup {ctarget}
  /\ log' = Append(log, Event("writeFile", ctarget, BaseName(ctarget)))
  /\ pc' = "allOpen"
  /\ UNCHANGED <<others, langIdx, cfgVars, pathVars, urlVars, lanVars, wstep, folders, probeIdx,
                 probes, picked, cmd, ctarget, fsAtStart, online>>

\* line 287
AllOpenTextDocument ==
  /\ pc = "allOpen"
  /\ log' = Append(log, Event("openTextDocument", ctarget, ""))
  /\ pc' = "allShow"
  /\ UNCHANGED <<others, langIdx, cfgVars, pathVars, urlVars, lanVars, wsVars, cmd, ctarget,
                 fsAtStart, online>>

\* lines 288-293: shown in the active column without taking the focus; the
\* loop goes on
AllShowTextDocument ==
  /\ pc = "allShow"
  /\ log' = Append(log, Event("showTextDocument", ctarget, "preview:false,active,preserveFocus"))
  /\ pc' = "loop"
  /\ UNCHANGED <<others, langIdx, cfgVars, pathVars, urlVars, lanVars, wsVars, cmd, ctarget,
                 fsAtStart, online>>

\* an awaited call of the loop rejects (file-system or editor error)
AllThrow ==
  /\ pc \in {"allMkdir", "allWrite", "allOpen", "allShow"}
  /\ log' = Append(log, Event("throw", ctarget, pc))
  /\ pc' = "threw"
  /\ UNCHANGED <<others, langIdx, cfgVars, pathVars, urlVars, lanVars, wsVars, cmd, ctarget,
                 fsAtStart, online>>

\* the command's promise settles and its locals are gone
Finish ==
  /\ cmd # "idle" /\ pc = "return"
  /\ cmd' = "idle" /\ pc' = "idle" /\ ctarget' = <<>> /\ log' = <<>> /\ fsAtStart' = {}
  /\ url' = <<>> /\ parsed' = Null /\ lan' = <<>> /\ effectiveBase' = <<>>
  /\ probeIdx' = 0 /\ probes' = 0 /\ picked' = 0
  /\ source' = <<>> /\ info' = Null /\ others' = <<>> /\ langIdx' = 0
  /\ UNCHANGED <<cfgVars, pstep, targetLang, target, targetInfo, backLang, backTarget,
                 ustep, ubase, ulang, urel, lstep, ifs, wstep, folders, fs, online>>

DocsRoot == <<"/", "w", "/", "n">>
DocReadme == DocsRoot \o <<"/">> \o STATIC \o <<"/">> \o EN \o <<"/">> \o GUIDE \o <<"/">>
               \o README \o DOT_MD

Init ==
  /\ treatReadmeAsIndex \in BOOLEAN
  /\ previewBase = DefaultPreviewBase
  /\ docsRootName \in {DefaultDocsRootName, "docs"}
  /\ PathIdle /\ UrlIdle /\ CmdIdle
  /\ lstep = "idle" /\ lan = <<>> /\ effectiveBase = <<>>
  /\ ifs = << <<[family |-> "IPv4", internal |-> TRUE, address |-> IP_LOOPBACK]>>,
              <<[family |-> "IPv4", internal |-> FALSE,
                 address |-> PREFIX_192_168 \o <<"1", ".", "2", "3">>]>> >>
  /\ folders = << [name |-> "site", uri |-> <<"/", "w", "/", "s">>],
                  [name |-> DefaultDocsRootName, uri |-> DocsRoot] >>
  /\ fs = WithParents(Dirname(DocReadme)) \cup {DocReadme}
  /\ wstep = "idle" /\ probeIdx = 0 /\ probes = 0 /\ picked = 0

Next ==
  \/ \E src \in Sources, lang \in Langs : OpenSibling(src, lang)
  \/ \E src \in Sources : OpenOnline(src)
  \/ \E src \in Sources : OpenPreview(src)
  \/ OpenFromUrl
  \/ \E u \in {<<"x">>, OnlineBase \o <<"/">> \o ZH_CN, online.url} : InputUrl(u)
  \/ PickStart \/ ProbeFolder \/ PickFallback
  \/ FromUrlTarget
  \/ MatExists
  \/ \E choice \in Choices : MatPrompt(choice)
  \/ MatCreateDirectory \/ MatWriteFile \/ MatOpenTextDocument \/ MatShowTextDocument
  \/ MatThrow \/ Catch
  \/ \E src \in Sources : OpenAllLanguages(src)
  \/ AllBuildTarget
  \/ AllExists
  \/ \E choice \in AllChoices : AllPrompt(choice)
  \/ AllCreateDirectory \/ AllWriteFile \/ AllOpenTextDocument \/ AllShowTextDocument
  \/ AllThrow
  \/ Finish

Spec == Init /\ [][Next]_vars

\* F = <ws>/<staticDir>/<lang>/<rel>.md for a configured language
IsDocOf(f, ws) ==
  \E lang \in Langs :
    LET prefix == ws.uri \o <<"/">> \o staticDir \o <<"/">> \o lang \o <<"/">>
    IN  StartsWith(f, prefix) /\ EndsWith(f, DOT_MD) /\ Len(f) > Len(prefix) + Len(DOT_MD)

\* C7: given the URL that openOnline built for a document F of the selected
\* workspace folder, openFromUrl targets F itself.
C7_OpenFromUrlInvertsOpenOnline ==
  ( /\ cmd = "openFromUrl" /\ pc = "exists"
    /\ online # NoOnline /\ url = online.url
    /\ IsDocOf(online.src, folders[picked]) )
  => ctarget = online.src

\* the events of the current run of openFileWithCreatePrompt
Ops(ops) == {i \in 1..Len(log) : log[i].op \in ops}
Declined == \E i \in Ops({"showInformationMessage"}) : log[i].arg # "create"
Threw    == Ops({"throw"}) # {}
InMaterializer == cmd \in {"openSibling", "openFromUrl"} /\ Ops({"stat"}) # {}

\* C10: the target's directory is created and the file written only after the
\* existence check reported it missing and the user then chose create; a
\* declined or dismissed dialog ends the run with nothing created, written,
\* opened or reported; an existing target is neither prompted for nor written;
\* and a run that is not aborted ends by showing the target as a non-preview
\* tab, after any write.
C10_MaterializerOrdering ==
  InMaterializer =>
    /\ \A i \in Ops({"createDirectory", "writeFile"}) :
         /\ log[i].path = (IF log[i].op = "writeFile" THEN ctarget ELSE Dirname(ctarget))
         /\ \E j \in 1..(i - 1), k \in 1..(i - 1) :
              /\ j < k
              /\ log[j] = Event("stat", ctarget, "missing")
              /\ log[k] = Event("showInformationMessage", ctarget, "create")
    /\ Declined =>
         /\ pc = "return" /\ fs = fsAtStart
         /\ Ops({"createDirectory", "writeFile", "openTextDocument", "showTextDocument",
                 "showErrorMessage", "throw"}) = {}
    /\ log[1] = Event("stat", ctarget, "found") =>
         /\ fs = fsAtStart
         /\ Ops({"showInformationMessage", "createDirectory", "writeFile"}) = {}
    /\ (pc = "return" /\ ~Declined /\ ~Threw) =>
         /\ log[Len(log)] = Event("showTextDocument", ctarget, "preview:false")
         /\ Ops({"showTextDocument"}) = {Len(log)}
         /\ \A i \in Ops({"createDirectory", "writeFile"}) : i < Len(log) /\ log[i].path \in fs

\* a run that found the target missing, was told to create it, and showed it
C10_Witness ==
  /\ InMaterializer /\ pc = "return"
  /\ Ops({"writeFile"}) # {}
  /\ log[Len(log)].op = "showTextDocument"
  /\ ctarget \in fs /\ ctarget \notin fsAtStart

(***************************************************************************)
(* m5docs.openAllLanguages, described from the source document alone: its  *)
(* language is the segment after the last static segment, and the file of  *)
(* a language is the source with that segment replaced.                    *)
(***************************************************************************)
SourceLang == SourceParts[Anchor(SourceParts) + 2]
WantedLangs == SelectSeq(languages, LAMBDA l : l # SourceLang)

\* the files of the given languages, in their order
RECURSIVE FilesOf(_, _, _)
FilesOf(parts, at, langs) ==
  IF langs = <<>> THEN <<>>
  ELSE <<Join([parts EXCEPT ![at] = Head(langs)], "/")>> \o FilesOf(parts, at, Tail(langs))
WantedFiles == FilesOf(SourceParts, Anchor(SourceParts) + 2, WantedLangs)

RECURSIVE DirsOf(_)
DirsOf(files) == IF files = <<>> THEN <<>> ELSE <<Dirname(Head(files))>> \o DirsOf(Tail(files))

\* the calls made for the k-th wanted language, in the order they were made
CallsFor(files, dirs, k) ==
  LET calls == SelectSeq(log, LAMBDA e : e.op # "throw" /\ e.path \in {files[k], dirs[k]})
  IN  [i \in 1..Len(calls) |-> <<calls[i].op, calls[i].arg>>]

\* the whole step for one language: an existing file is opened and shown, a
\* missing one is declined, or created and then opened and shown
ShowArg == "preview:false,active,preserveFocus"
StepFound == << <<"stat", "found">>, <<"openTextDocument", "">>, <<"showTextDocument", ShowArg>> >>
StepDeclined(choice) == << <<"stat", "missing">>, <<"showInformationMessage", choice>> >>
StepCreated(stem) ==
  << <<"stat", "missing">>, <<"showInformationMessage", "create">>, <<"createDirectory", "">>,
     <<"writeFile", stem>>, <<"openTextDocument", "">>, <<"showTextDocument", ShowArg>> >>
WholeSteps(file) ==
  {StepFound, StepDeclined("skip"), StepDeclined("dismiss"), StepCreated(BaseName(file))}
IsPrefix(a, b) == Len(a) <= Len(b) /\ SubSeq(b, 1, Len(a)) = a

\* the position in the wanted languages of the one a call was made for, 0 if
\* none
WantedOf(files, dirs, e) ==
  LET ks == {k \in 1..Len(files) : e.path \in {files[k], dirs[k]}}
  IN  IF ks = {} THEN 0 ELSE CHOOSE k \in ks : TRUE

AllRunning == cmd = "openAllLanguages" /\ info # Null
AllCalls == {i \in 1..Len(log) : log[i].op \notin {"throw", "showErrorMessage"}}

\* C11: openAllLanguages makes calls only for the configured languages other
\* than the source's, in configuration order; the whole step of a language
\* (existence check, dialog, creation, open, show) is over before the
\* existence check of the next one; a declined or dismissed dialog ends only
\* that language's step, so a run in which no call failed has processed every
\* other language; and the source's own file is never written, opened or shown.
C11_OpenAllLanguagesOrdering ==
  AllRunning =>
    LET files == WantedFiles
        dirs  == DirsOf(files)
        n     == Len(files)
        at    == [i \in 1..Len(log) |-> WantedOf(files, dirs, log[i])]
        calls == [k \in 1..n |-> CallsFor(files, dirs, k)]
    IN  /\ \A i \in AllCalls : at[i] # 0
        /\ \A i \in AllCalls, j \in AllCalls : i < j => at[i] <= at[j]
        /\ \A k \in 1..n :
             /\ \E step \in WholeSteps(files[k]) : IsPrefix(calls[k], step)
             /\ (k < n /\ calls[k + 1] # <<>>) => calls[k] \in WholeSteps(files[k])
             /\ (pc = "return" /\ ~Threw) => calls[k] \in WholeSteps(files[k])
        /\ \A i \in 1..Len(log) : log[i].path # toPosix(source)
        /\ \A k \in 1..n : files[k] # toPosix(source)

\* a run that was declined for the first language and went on to create and
\* show the second
C11_Witness ==
  /\ AllRunning /\ pc = "return" /\ ~Threw
  /\ LET files == WantedFiles
         dirs  == DirsOf(files)
     IN  /\ Len(files) = 2
         /\ CallsFor(files, dirs, 1) \in {StepDeclined("skip"), StepDeclined("dismiss")}
         /\ CallsFor(files, dirs, 2) = StepCreated(BaseName(files[2]))
         /\ files[2] \in fs /\ files[1] \notin fs

====
